---- MODULE Spec2Model ----
(***************************************************************************)
(* The AIWIS spectral engine (class AudioEngine, buffer-source version):   *)
(* transport, live graph construction and band parameter updates.          *)
(*                                                                         *)
(* The engine instance is one record, `engine`; every method of the class  *)
(* is an operator from engine records to engine records, so that a method  *)
(* calling another (seek -> pause, play; skip -> seek) is a composition.   *)
(* The nodes the engine creates in its AudioContext (source nodes and band *)
(* chains) are kept in the same record, as the context keeps every node    *)
(* that is still connected.                                                *)
(***************************************************************************)
EXTENDS Integers, Sequences, FiniteSets, TLC

\* ---------------------------------------------------------------- bounds
NumBands   == 2      \* band ids are 1..NumBands
NumBlobs   == 2      \* audio files the caller can load
MaxClock   == 2      \* audioContext.currentTime ranges over 0..MaxClock
MaxSources == 2      \* source nodes created over a run
MaxLoads   == 2      \* loadAudio calls over a run
MaxSeek    == 3      \* seek targets range over -1..MaxSeek
MaxRenders == 2      \* offline rendering contexts created over a run
MaxFrames  == 46     \* rendered buffers have 1..MaxFrames frames
MaxPhase   == 2      \* rendered buffers carry one of 0..MaxPhase waveforms

BandIds == 1..NumBands
Blobs   == 1..NumBlobs

\* duration of the buffer decoded from blob b (seconds)
BlobDuration(b) == b

\* the deltas the transport bar passes to skip (back, forward)
SkipDeltas == {-1, 1}

\* sample rate of the buffer decoded from blob b (frames per second) and its
\* length in frames
BlobRate(b) == b + 1
BlobLength(b) == BlobDuration(b) * BlobRate(b)

\* the positions of the input and output volume faders
Volumes == {1, 2}

\* the fader positions (gainL, gainR) a band is given; the two channels
\* differ, and no stored gain is 0, so that a silenced stage, a left stage
\* and a right stage can be told apart
FaderPairs == { <<1, 2>>, <<2, 1>> }

\* FrequencyBand records as the caller owns them
BandRecords ==
  { [id |-> i, gainL |-> g[1], gainR |-> g[2], muted |-> m, solo |-> s] :
      i \in BandIds, g \in FaderPairs, m \in BOOLEAN, s \in BOOLEAN }

\* band lists: bands 1..n in order, one record per id
BandLists ==
  UNION { { l \in [1..n -> BandRecords] : \A i \in 1..n : l[i].id = i }
          : n \in 1..NumBands }

\* the band records startSpectralProcessing creates for a new session
InitialBand(i) ==
  [id |-> i, gainL |-> 1, gainR |-> 1, muted |-> FALSE, solo |-> FALSE]

\* the session's band list and its records
SessionLists == { [i \in BandIds |-> InitialBand(i)] }
SessionRecords == { InitialBand(i) : i \in BandIds }

\* the session's band list after the user has soloed or muted its first
\* band, and the records of these lists
MixLists ==
  { [i \in BandIds |-> InitialBand(i)],
    [i \in BandIds |-> [InitialBand(i) EXCEPT !.solo = (i = 1)]],
    [i \in BandIds |-> [InitialBand(i) EXCEPT !.muted = (i = 1)]] }
MixRecords == { l[i] : l \in MixLists, i \in BandIds }

\* ---------------------------------------------------------------- helpers
Min(a, b) == IF a < b THEN a ELSE b
Max(a, b) == IF a > b THEN a ELSE b

\* an AudioParam: its instantaneous value and the target of its last ramp
SetValue(v) == [value |-> v, target |-> v]
\* param.value = v: an immediate write
setTargetAtTime_instant(p, v) == [value |-> v, target |-> v]
setTargetAtTime(p, v) == [p EXCEPT !.target = v]
Settle(p) == [p EXCEPT !.value = p.target]

\* sequence s without its i-th element
Remove(s, i) == [j \in 1..(Len(s) - 1) |-> IF j < i THEN s[j] ELSE s[j + 1]]

VARIABLES
  engine,     \* the AudioEngine instance and the nodes of its context
  clock,      \* audioContext.currentTime
  pending,    \* loadAudio calls awaiting their decode: their blobs, in the
              \* order the calls were issued
  loads,      \* number of loadAudio calls issued so far
  call,       \* the last engine call: its name and arguments, and whether
              \* it started a new source node
  app         \* the application: its screen state, its band list, its
              \* error banner and armed error timers, the analysis and the
              \* stem render it awaits, the rendered buffer it holds and
              \* the file it has last offered for download

vars == <<engine, clock, pending, loads, call, app>>

\* ---------------------------------------------------------------- getters
duration(e) == IF e.decodedBuffer = 0 THEN 0 ELSE BlobDuration(e.decodedBuffer)

currentTime(e, now) ==
  IF ~e.audioContext \/ ~e.isPlaying THEN e.pauseTime
  ELSE Min(now - e.startTime, duration(e))

\* ---------------------------------------------------------------- graph
\* a source node after stop(): it renders nothing and holds neither its
\* buffer nor its connection any more
StoppedSource == [buffer |-> 0, offset |-> 0, input |-> 0, stopped |-> TRUE]

stopSource(e) ==
  IF e.sourceNode = 0 THEN e
  ELSE [e EXCEPT !.sources[e.sourceNode] = StoppedSource]

\* gain-stage initial value in createBandNodes
initialGain(band, ch) ==
  IF band.muted THEN 0 ELSE IF ch = "L" THEN band.gainL ELSE band.gainR

\* band.range: the band with id i is made from the i-th entry of
\* SPECTRAL_BANDS_TEMPLATE
SPECTRAL_BANDS_TEMPLATE ==
  << <<20, 60>>, <<60, 250>>, <<250, 500>>, <<500, 2000>>, <<2000, 4000>>,
     <<4000, 6000>>, <<6000, 10000>>, <<10000, 20000>> >>
range(band) == SPECTRAL_BANDS_TEMPLATE[band.id]

\* a biquad filter; Q is counted in thousandths
createFilter(type, freq, q) == [type |-> type, frequency |-> freq, Q |-> q]

\* the connect calls of createBandNodes with the gain stages crossed over
bandConnections_crossed ==
  << <<"input", "hp1", 0>>, <<"hp1", "hp2", 0>>, <<"hp2", "hp3", 0>>,
     <<"hp3", "lp1", 0>>, <<"lp1", "lp2", 0>>, <<"lp2", "lp3", 0>>,
     <<"lp3", "gainL", 0>>, <<"lp3", "gainR", 0>>,
     <<"gainL", "merger", 1>>, <<"gainR", "merger", 0>>,
     <<"merger", "output", 0>> >>

\* the connect calls of createBandNodes, in order: source node, destination
\* node, and input of the destination
bandConnections ==
  << <<"input", "hp1", 0>>, <<"hp1", "hp2", 0>>, <<"hp2", "hp3", 0>>,
     <<"hp3", "lp1", 0>>, <<"lp1", "lp2", 0>>, <<"lp2", "lp3", 0>>,
     <<"lp3", "gainL", 0>>, <<"lp3", "gainR", 0>>,
     <<"gainL", "merger", 0>>, <<"gainR", "merger", 1>>,
     <<"merger", "output", 0>> >>

\* the six filters createBandNodes creates for a band
bandFilters(band) ==
  [hp1 |-> createFilter("highpass", range(band)[1], 707),
   hp2 |-> createFilter("highpass", range(band)[1], 707),
   hp3 |-> createFilter("highpass", range(band)[1], 707),
   lp1 |-> createFilter("lowpass", range(band)[2], 707),
   lp2 |-> createFilter("lowpass", range(band)[2], 707),
   lp3 |-> createFilter("lowpass", range(band)[2], 707)]

\* A band chain is kept in the engine record by the band it was made
\* for, its two gain stages and the buses it is wired between; its filters
\* and its connections are bandFilters and bandConnections of that band.
createBandNodes(e, inputNode, outputNode, band, isRealTime) ==
  LET chain == [band   |-> band.id,
                gainL  |-> SetValue(initialGain(band, "L")),
                gainR  |-> SetValue(initialGain(band, "R")),
                input  |-> inputNode,
                output |-> outputNode]
      e1 == [e EXCEPT !.chains = Append(e.chains, chain)]
  IN IF isRealTime
     THEN [e1 EXCEPT !.bandNodes[band.id] = Len(e1.chains)]
     ELSE e1

RECURSIVE forEachBand(_, _, _)
forEachBand(e, bands, i) ==
  IF i > Len(bands) THEN e
  ELSE forEachBand(
         createBandNodes(e, e.inputGainNode, e.masterGainNode, bands[i], TRUE),
         bands, i + 1)

buildAndConnectSource(e, bands, offset) ==
  IF ~e.audioContext \/ e.decodedBuffer = 0
     \/ e.inputGainNode = 0 \/ e.masterGainNode = 0
  THEN e
  ELSE LET src == [buffer |-> e.decodedBuffer, offset |-> offset,
                   input |-> e.inputGainNode, stopped |-> FALSE]
           e1  == [e EXCEPT !.sources = Append(e.sources, src),
                            !.sourceNode = Len(e.sources) + 1]
       IN forEachBand(e1, bands, 1)

setupRealtimeGraph(e) ==
  IF ~e.audioContext \/ e.decodedBuffer = 0 THEN e
  ELSE LET e1 == stopSource(e)
       IN [e1 EXCEPT !.inputGainNode = e.graphs + 1,
                     !.masterGainNode = e.graphs + 1,
                     !.graphs = e.graphs + 1,
                     !.buses = Append(e.buses,
                                 [inputGain  |-> SetValue(e.inputVolume),
                                  masterGain |-> SetValue(e.outputVolume)])]

\* ---------------------------------------------------------------- volumes
setInputVolume(e, val) ==
  LET e1 == [e EXCEPT !.inputVolume = val]
  IN IF e.inputGainNode = 0 THEN e1
     ELSE [e1 EXCEPT !.buses[e.inputGainNode].inputGain = setTargetAtTime(@, val)]

setOutputVolume(e, val) ==
  LET e1 == [e EXCEPT !.outputVolume = val]
  IN IF e.masterGainNode = 0 THEN e1
     ELSE [e1 EXCEPT !.buses[e.masterGainNode].masterGain = setTargetAtTime(@, val)]

\* ---------------------------------------------------------------- updates
\* targetGain without the solo rule
targetGain_noSolo(band, ch, soloActive) ==
  LET t0 == IF ch = "L" THEN band.gainL ELSE band.gainR
  IN IF band.muted THEN 0 ELSE t0

targetGain(band, ch, soloActive) ==
  LET t0 == IF ch = "L" THEN band.gainL ELSE band.gainR
      t1 == IF band.muted THEN 0 ELSE t0
  IN IF soloActive /\ ~band.solo THEN 0 ELSE t1

updateBandParams(e, band, soloActive) ==
  LET n == e.bandNodes[band.id]
  IN IF n = 0 \/ ~e.audioContext THEN e
     ELSE [e EXCEPT
            !.chains[n].gainL =
               setTargetAtTime(@, targetGain(band, "L", soloActive)),
            !.chains[n].gainR =
               setTargetAtTime(@, targetGain(band, "R", soloActive))]

\* ---------------------------------------------------------------- transport
\* play without the already-playing guard
play_noGuard(e, now, bands) ==
  IF ~e.audioContext THEN e
  ELSE LET e1 == buildAndConnectSource(e, bands, e.pauseTime)
       IN [e1 EXCEPT !.startTime = now - e1.pauseTime, !.isPlaying = TRUE]

play(e, now, bands) ==
  IF ~e.audioContext THEN e
  ELSE IF e.isPlaying THEN e
  ELSE LET e1 == buildAndConnectSource(e, bands, e.pauseTime)
       IN [e1 EXCEPT !.startTime = now - e1.pauseTime, !.isPlaying = TRUE]

\* pause that leaves the source node running
pause_noStop(e, now) ==
  IF e.sourceNode = 0 \/ ~e.isPlaying THEN e
  ELSE [e EXCEPT !.pauseTime = now - e.startTime, !.isPlaying = FALSE]

pause(e, now) ==
  IF e.sourceNode = 0 \/ ~e.isPlaying THEN e
  ELSE [stopSource(e) EXCEPT !.pauseTime = now - e.startTime,
                             !.isPlaying = FALSE]

\* stop that keeps the stored offset
stop_keepsOffset(e) ==
  [stopSource(e) EXCEPT !.isPlaying = FALSE]

stop(e) ==
  [stopSource(e) EXCEPT !.pauseTime = 0, !.isPlaying = FALSE]

seek(e, now, time, bands) ==
  LET wasPlaying == e.isPlaying
      e1 == IF wasPlaying THEN pause(e, now) ELSE e
      e2 == [e1 EXCEPT !.pauseTime = Max(0, Min(time, duration(e1)))]
  IN IF wasPlaying THEN play(e2, now, bands) ELSE e2

skip(e, now, seconds, bands) ==
  seek(e, now, currentTime(e, now) + seconds, bands)

\* ---------------------------------------------------------------- loading
initContext(e) == [e EXCEPT !.audioContext = TRUE]

\* loadAudio up to its first await
loadAudioBegin(e) ==
  LET e1 == stop(initContext(e))
  IN [e1 EXCEPT !.bandNodes = [b \in BandIds |-> 0]]

\* loadAudio after decodeAudioData has resolved with the buffer of blob
loadAudioResume(e, blob) ==
  setupRealtimeGraph([e EXCEPT !.decodedBuffer = blob])

\* ---------------------------------------------------------------- renders
\* An OfflineAudioContext is a record of engine.offline; the k-th one has
\* its buses named -k, and its band chains are the chains of engine.chains
\* between those buses.  A render call returns the engine and the message
\* of the error it threw ("" when it returned its promise).
anySolo(bands) == \E i \in 1..Len(bands) : bands[i].solo

\* Band objects are held by reference.  A heap is the sequence of the
\* objects allocated so far, a reference an index into it; the caller's
\* band list occupies references 1..Len(bands).
\* const rb = b: the same object under another name
spread_alias(heap, r) == [heap |-> heap, ref |-> r]

\* { ...b }: a new object with the fields of the object at r
spread(heap, r) == [heap |-> Append(heap, heap[r]), ref |-> Len(heap) + 1]

\* bands.map(b => { const rb = {...b}; if (anySolo && !rb.solo) { rb.gainL
\* = 0; rb.gainR = 0 }; return rb }): the heap after the map and the
\* references it returns
RECURSIVE mapRenderBands(_, _, _, _)
mapRenderBands(heap, refs, n, i) ==
  IF i > n THEN [heap |-> heap, refs |-> refs]
  ELSE LET soloed == \E j \in 1..n : heap[j].solo
           rb == spread(heap, i)
           h1 == IF soloed /\ ~rb.heap[rb.ref].solo
                 THEN [rb.heap EXCEPT ![rb.ref].gainL = 0, ![rb.ref].gainR = 0]
                 ELSE rb.heap
       IN mapRenderBands(h1, Append(refs, rb.ref), n, i + 1)

\* the render list renderOffline builds from the caller's list, and the
\* caller's list as the map leaves it
cloneBands(bands) ==
  LET m == mapRenderBands(bands, <<>>, Len(bands), 1)
  IN [renderBands |-> [i \in 1..Len(bands) |-> m.heap[m.refs[i]]],
      bands       |-> [i \in 1..Len(bands) |-> m.heap[i]]]

RECURSIVE forEachRenderBand(_, _, _, _)
forEachRenderBand(e, bus, renderBands, i) ==
  IF i > Len(renderBands) THEN e
  ELSE forEachRenderBand(
         createBandNodes(e, bus, bus, renderBands[i], FALSE),
         bus, renderBands, i + 1)

\* renderOffline with one step changed: the solo rule left out, the length
\* taken in seconds, the chains registered as live ones, or the source
\* started at the stored offset
renderOffline_variant(e, bands, zeroNonSolo, frames, isRealTime, offset) ==
  IF e.decodedBuffer = 0
  THEN [engine |-> e, error |-> "No audio loaded", bands |-> bands]
  ELSE LET offlineCtx ==
             [channels   |-> 2,
              length     |-> frames,
              sampleRate |-> BlobRate(e.decodedBuffer),
              buffer     |-> e.decodedBuffer,
              inputGain  |-> e.inputVolume,
              masterGain |-> e.outputVolume,
              compressor |-> [on |-> TRUE, threshold |-> -10, ratio |-> 12],
              startAt    |-> offset,
              state      |-> "running"]
           e1 == [e EXCEPT !.offline = Append(e.offline, offlineCtx)]
           bus == -Len(e1.offline)
           renderBands ==
             [i \in 1..Len(bands) |->
                IF zeroNonSolo /\ anySolo(bands) /\ ~bands[i].solo
                THEN [bands[i] EXCEPT !.gainL = 0, !.gainR = 0]
                ELSE bands[i]]
           build[i \in 0..Len(bands)] ==
             IF i = 0 THEN e1
             ELSE createBandNodes(build[i - 1], bus, bus, renderBands[i], isRealTime)
       IN [engine |-> build[Len(bands)], error |-> "", bands |-> bands]

renderOffline_noSolo(e, bands) ==
  renderOffline_variant(e, bands, FALSE, BlobLength(e.decodedBuffer), FALSE, 0)

renderOffline_seconds(e, bands) ==
  renderOffline_variant(e, bands, TRUE, BlobDuration(e.decodedBuffer), FALSE, 0)

renderOffline_realTime(e, bands) ==
  renderOffline_variant(e, bands, TRUE, BlobLength(e.decodedBuffer), TRUE, 0)

renderOffline_fromOffset(e, bands) ==
  renderOffline_variant(e, bands, TRUE, BlobLength(e.decodedBuffer), FALSE, e.pauseTime)

renderOffline(e, bands) ==
  IF e.decodedBuffer = 0
  THEN [engine |-> e, error |-> "No audio loaded", bands |-> bands]
  ELSE LET offlineCtx ==
             [channels   |-> 2,
              length     |-> BlobLength(e.decodedBuffer),
              sampleRate |-> BlobRate(e.decodedBuffer),
              buffer     |-> e.decodedBuffer,
              inputGain  |-> e.inputVolume,
              masterGain |-> e.outputVolume,
              compressor |-> [on |-> TRUE, threshold |-> -10, ratio |-> 12],
              startAt    |-> 0,
              state      |-> "running"]
           e1 == [e EXCEPT !.offline = Append(e.offline, offlineCtx)]
           renderBands == cloneBands(bands).renderBands
       IN [engine |-> forEachRenderBand(e1, -Len(e1.offline), renderBands, 1),
           error  |-> "",
           bands  |-> cloneBands(bands).bands]

\* renderSingleBand with one step changed: the source check left out, or
\* the chain registered as a live one
renderSingleBand_variant(e, targetBand, checked, isRealTime) ==
  IF checked /\ e.decodedBuffer = 0
  THEN [engine |-> e, error |-> "No audio loaded"]
  ELSE LET offlineCtx ==
             [channels   |-> 2,
              length     |-> BlobLength(e.decodedBuffer),
              sampleRate |-> BlobRate(e.decodedBuffer),
              buffer     |-> e.decodedBuffer,
              inputGain  |-> e.inputVolume,
              masterGain |-> e.outputVolume,
              compressor |-> [on |-> FALSE, threshold |-> 0, ratio |-> 0],
              startAt    |-> 0,
              state      |-> "running"]
           e1 == [e EXCEPT !.offline = Append(e.offline, offlineCtx)]
       IN [engine |-> createBandNodes(e1, -Len(e1.offline), -Len(e1.offline),
                                      targetBand, isRealTime),
           error  |-> ""]

renderSingleBand_noCheck(e, targetBand) ==
  renderSingleBand_variant(e, targetBand, FALSE, FALSE)

renderSingleBand_realTime(e, targetBand) ==
  renderSingleBand_variant(e, targetBand, TRUE, TRUE)

renderSingleBand(e, targetBand) ==
  IF e.decodedBuffer = 0 THEN [engine |-> e, error |-> "No audio loaded"]
  ELSE LET offlineCtx ==
             [channels   |-> 2,
              length     |-> BlobLength(e.decodedBuffer),
              sampleRate |-> BlobRate(e.decodedBuffer),
              buffer     |-> e.decodedBuffer,
              inputGain  |-> e.inputVolume,
              masterGain |-> e.outputVolume,
              compressor |-> [on |-> FALSE, threshold |-> 0, ratio |-> 0],
              startAt    |-> 0,
              state      |-> "running"]
           e1 == [e EXCEPT !.offline = Append(e.offline, offlineCtx)]
       IN [engine |-> createBandNodes(e1, -Len(e1.offline), -Len(e1.offline),
                                      targetBand, FALSE),
           error  |-> ""]

\* a rendering context after its rendering has completed, and a node of
\* it: the context is closed, and nothing refers to its nodes any more
ClosedContext ==
  [channels |-> 0, length |-> 0, sampleRate |-> 0, buffer |-> 0,
   inputGain |-> 0, masterGain |-> 0,
   compressor |-> [on |-> FALSE, threshold |-> 0, ratio |-> 0],
   startAt |-> 0, state |-> "closed"]
ClosedNode ==
  [band |-> 0, gainL |-> SetValue(0), gainR |-> SetValue(0),
   input |-> 0, output |-> 0]

\* startRendering resolves: the k-th rendering context has produced its
\* buffer
startRenderingResolved(e, k) ==
  [e EXCEPT !.offline[k] = ClosedContext,
            !.chains = [i \in 1..Len(e.chains) |->
                          IF e.chains[i].input = -k THEN ClosedNode
                          ELSE e.chains[i]]]

\* ---------------------------------------------------------------- export
\* A rendered AudioBuffer: 2 channels (the rendering contexts have 2), its
\* length in frames, its sample rate, and its samples, given by a waveform
\* number.  Samples are counted in quarters: 4 is 1.0, -6 is -1.5.
AudioBuffers ==
  { [numberOfChannels |-> 2, length |-> n, sampleRate |-> BlobRate(b),
     phase |-> p] : n \in 1..MaxFrames, b \in Blobs, p \in 0..MaxPhase }

\* buffer.getChannelData(i)[k], in quarters: neighbouring frames and the two
\* channels differ, and the values run from -1.75 to 1.75
getChannelData(buffer, i, k) == ((k + 7 * i + 5 * buffer.phase) % 15) - 7

\* v written little-endian on n bytes (DataView.setUint16 / setUint32 /
\* setInt16 with littleEndian = true)
LittleEndian(v, n) ==
  [j \in 1..n |-> (v \div (256 ^ (j - 1))) % 256]

\* v written with its high byte first
BigEndian(v, n) == [j \in 1..n |-> LittleEndian(v, n)[n + 1 - j]]

setUint16_bigEndian(data) == BigEndian(data, 2)

setUint16(data) == LittleEndian(data, 2)
setUint32(data) == LittleEndian(data, 4)

\* x | 0 for a quotient num / 4: truncation towards zero
TruncQuarter(num) == IF num >= 0 THEN num \div 4 ELSE -((-num) \div 4)

\* the 16-bit sample downloadWav stores for a sample of q quarters
toInt16(q) ==
  LET sample == Max(-4, Min(4, q))
  IN IF 2 + sample < 0 THEN (sample * 32768) \div 4
     ELSE TruncQuarter(sample * 32767)

\* the bytes of the file downloadWav builds
downloadWav(buffer) ==
  LET numOfChan == buffer.numberOfChannels
      length == buffer.length * numOfChan * 2 + 44
      header ==
        setUint32(1179011410) \o setUint32(length - 8) \o setUint32(1163280727)
        \o setUint32(544501094) \o setUint32(16) \o setUint16(1)
        \o setUint16(numOfChan)
        \o setUint32(buffer.sampleRate)
        \o setUint32(buffer.sampleRate * 2 * numOfChan)
        \o setUint16(numOfChan * 2) \o setUint16(16) \o setUint32(1635017060)
        \o setUint32(length - 40 - 4)
      \* pos is the write position the header has advanced, and the frame
      \* the sample loop starts at
      pos == Len(header)
      \* the m-th sample the loop writes (m from 0) is frame pos + m \div
      \* numOfChan, channel m % numOfChan, at byte offset 44 + 2 * m
      written(m) == pos + (m \div numOfChan) < buffer.length
      sampleAt(m) ==
        toInt16(getChannelData(buffer, m % numOfChan, pos + (m \div numOfChan)))
  IN [n \in 1..length |->
        IF n <= Len(header) THEN header[n]
        ELSE LET offset == n - 1 - 44
                 m == offset \div 2
             IN IF written(m)
                THEN LittleEndian(sampleAt(m), 2)[(offset % 2) + 1]
                ELSE 0]

\* ---------------------------------------------------------------- machine
\* the engine as its field initialisers leave it, with no context and no
\* node
NewEngine ==
  [audioContext |-> FALSE, decodedBuffer |-> 0,
   sourceNode |-> 0, inputGainNode |-> 0, masterGainNode |-> 0,
   bandNodes |-> [b \in BandIds |-> 0],
   startTime |-> 0, pauseTime |-> 0, isPlaying |-> FALSE,
   inputVolume |-> 1, outputVolume |-> 1,
   sources |-> <<>>, chains |-> <<>>, graphs |-> 0,
   buses |-> <<>>, offline |-> <<>>]

\* the application as its useState initialisers leave it
NewApp == [state |-> "IDLE", errorMessage |-> "", timers |-> 0,
           bands |-> <<>>, analysis |-> "", analyzing |-> 0,
           isPlaying |-> FALSE, rendering |-> "",
           generatedBuffer |-> [numberOfChannels |-> 0, length |-> 0,
                                sampleRate |-> 0, phase |-> 0],
           file |-> <<>>]

Init ==
  /\ app = NewApp
  /\ engine = NewEngine
  /\ clock = 0
  /\ pending = <<>>
  /\ loads = 0
  /\ call = [op |-> "new", arg |-> 0, bands |-> <<>>, solo |-> FALSE,
             was |-> FALSE, acted |-> FALSE, built |-> FALSE, error |-> ""]

\* a call of one engine method: arg is its number argument (a time, a
\* delta, a volume or a blob), bands its band list or its one band; was is
\* the playing flag it found, acted whether it changed the engine, error
\* the message of the error it threw ("" when it returned)
Step(op, arg, bands, solo, e1) ==
  /\ engine' = e1
  /\ call' = [op |-> op, arg |-> arg, bands |-> bands, solo |-> solo,
              was   |-> engine.isPlaying,
              acted |-> e1 # engine,
              built |-> Len(e1.sources) > Len(engine.sources),
              error |-> ""]

Play(bands) ==
  /\ Len(engine.sources) < MaxSources
  /\ Step("play", 0, bands, FALSE, play(engine, clock, bands))
  /\ UNCHANGED <<clock, pending, loads, app>>

Pause ==
  /\ Step("pause", 0, <<>>, FALSE, pause(engine, clock))
  /\ UNCHANGED <<clock, pending, loads, app>>

Stop ==
  /\ Step("stop", 0, <<>>, FALSE, stop(engine))
  /\ UNCHANGED <<clock, pending, loads, app>>

Seek(time, bands) ==
  /\ Len(engine.sources) < MaxSources
  /\ Step("seek", time, bands, FALSE, seek(engine, clock, time, bands))
  /\ UNCHANGED <<clock, pending, loads, app>>

Skip(seconds, bands) ==
  /\ Len(engine.sources) < MaxSources
  /\ Step("skip", seconds, bands, FALSE, skip(engine, clock, seconds, bands))
  /\ UNCHANGED <<clock, pending, loads, app>>

UpdateBandParams(band, soloActive) ==
  /\ Step("update", 0, <<band>>, soloActive, updateBandParams(engine, band, soloActive))
  /\ UNCHANGED <<clock, pending, loads, app>>

SetInputVolume(val) ==
  /\ Step("inputVolume", val, <<>>, FALSE, setInputVolume(engine, val))
  /\ UNCHANGED <<clock, pending, loads, app>>

SetOutputVolume(val) ==
  /\ Step("outputVolume", val, <<>>, FALSE, setOutputVolume(engine, val))
  /\ UNCHANGED <<clock, pending, loads, app>>

\* the live session: the engine without its rendering contexts and their
\* nodes
LiveSession(e) ==
  LET InLiveContext(c) == c.input > 0
  IN [e EXCEPT !.offline = <<>>, !.chains = SelectSeq(e.chains, InLiveContext)]

\* a call of a render method, or the completion of its rendering, with the
\* result r it produced; acted is whether it changed the live session
StepRender(op, bands, r) ==
  /\ engine' = r.engine
  /\ call' = [op |-> op, arg |-> 0, bands |-> bands, solo |-> FALSE,
              was   |-> engine.isPlaying,
              acted |-> LiveSession(r.engine) # LiveSession(engine),
              built |-> FALSE,
              error |-> r.error]

RenderOffline(bands) ==
  /\ Len(engine.offline) < MaxRenders
  /\ StepRender("render", bands, renderOffline(engine, bands))
  /\ UNCHANGED <<clock, pending, loads, app>>

RenderSingleBand(targetBand) ==
  /\ Len(engine.offline) < MaxRenders
  /\ StepRender("stem", <<targetBand>>, renderSingleBand(engine, targetBand))
  /\ UNCHANGED <<clock, pending, loads, app>>

RenderDone(k) ==
  /\ engine.offline[k].state = "running"
  /\ StepRender("rendered", <<>>,
                [engine |-> startRenderingResolved(engine, k), error |-> ""])
  /\ UNCHANGED <<clock, pending, loads, app>>

LoadAudio(blob) ==
  /\ loads < MaxLoads
  /\ loads' = loads + 1
  /\ pending' = Append(pending, blob)
  /\ Step("load", blob, <<>>, FALSE, loadAudioBegin(engine))
  /\ UNCHANGED <<clock, app>>

LoadResolve(i) ==
  /\ pending' = Remove(pending, i)
  /\ Step("loaded", pending[i], <<>>, FALSE, loadAudioResume(engine, pending[i]))
  /\ UNCHANGED <<clock, loads, app>>

LoadReject(i) ==
  /\ pending' = Remove(pending, i)
  /\ Step("failed", pending[i], <<>>, FALSE, engine)
  /\ UNCHANGED <<clock, loads, app>>

\* every ramp scheduled on a gain stage (time constant 0.05 s) reaches its
\* target
settleRamps(e) ==
  [e EXCEPT !.chains =
     [i \in 1..Len(e.chains) |->
        [e.chains[i] EXCEPT !.gainL = Settle(@), !.gainR = Settle(@)]],
            !.buses =
     [i \in 1..Len(e.buses) |->
        [e.buses[i] EXCEPT !.inputGain = Settle(@), !.masterGain = Settle(@)]]]

\* the context's clock advances by one second; every ramp has settled by
\* then
Tick ==
  /\ engine.audioContext
  /\ clock < MaxClock
  /\ clock' = clock + 1
  /\ engine' = settleRamps(engine)
  /\ call' = [op |-> "tick", arg |-> 0, bands |-> <<>>, solo |-> FALSE,
              was |-> engine.isPlaying, acted |-> FALSE, built |-> FALSE,
              error |-> ""]
  /\ UNCHANGED <<pending, loads, app>>

\* a fraction of a second passes: the ramps settle, and the clock, counted
\* in whole seconds, reads the same
Ramp ==
  /\ engine.audioContext
  /\ engine' = settleRamps(engine)
  /\ call' = [op |-> "ramp", arg |-> 0, bands |-> <<>>, solo |-> FALSE,
              was |-> engine.isPlaying, acted |-> FALSE, built |-> FALSE,
              error |-> ""]
  /\ UNCHANGED <<clock, pending, loads, app>>

\* The session as the application drives it: one band list, every
\* transport call, overlapping loads.
Next ==
  \/ \E bands \in SessionLists : Play(bands)
  \/ Pause
  \/ Stop
  \/ \E time \in -1..MaxSeek, bands \in SessionLists : Seek(time, bands)
  \/ \E seconds \in SkipDeltas, bands \in SessionLists :
        Skip(seconds, bands)
  \/ \E blob \in Blobs : LoadAudio(blob)
  \/ \E band \in SessionRecords : UpdateBandParams(band, FALSE)
  \/ \E i \in 1..Len(pending) : LoadResolve(i)
  \/ \E i \in 1..Len(pending) : LoadReject(i)
  \/ Tick

Spec == Init /\ [][Next]_vars

\* The same session with time passing: the context's clock keeps advancing
\* (up to MaxClock), whether or not a decode ever completes.
SpecLive == Init /\ [][Next]_vars /\ WF_vars(Tick)

\* Loads that all decode: the session with every transport call and
\* overlapping loads, none of which fails.  The k-th call loads file k, so
\* that a file's number is also the rank of the call that loads it.
NextLoads ==
  \/ /\ loads < NumBlobs
     /\ LoadAudio(loads + 1)
  \/ \E i \in 1..Len(pending) : LoadResolve(i)
  \/ \E bands \in SessionLists : Play(bands)
  \/ Pause
  \/ Stop
  \/ Tick

SpecLoads == Init /\ [][NextLoads]_vars

\* One live graph under every band list and every band edit: a single
\* source is loaded and played once, and the bands are retargeted while the
\* graph is in place and their ramps settle.
NextGains ==
  \/ /\ loads = 0
     /\ LoadAudio(1)
  \/ \E i \in 1..Len(pending) : LoadResolve(i)
  \/ /\ engine.sources = <<>>
     /\ \E bands \in BandLists : Play(bands)
  \/ \E band \in BandRecords, soloActive \in BOOLEAN :
        UpdateBandParams(band, soloActive)
  \/ Ramp

SpecGains == Init /\ [][NextGains]_vars

\* The session's live graph with time passing: the session's bands are
\* muted, soloed and retargeted with and without a solo active, and a
\* scheduled ramp is not left waiting for ever.
NextRamps ==
  \/ /\ loads = 0
     /\ LoadAudio(1)
  \/ \E i \in 1..Len(pending) : LoadResolve(i)
  \/ /\ engine.sources = <<>>
     /\ \E bands \in SessionLists : Play(bands)
  \/ \E band \in MixRecords, soloActive \in BOOLEAN :
        UpdateBandParams(band, soloActive)
  \/ Ramp

SpecRamps == Init /\ [][NextRamps]_vars /\ WF_vars(Ramp)

\* One render of one source: every band list and every band record, every
\* source and every setting of the two volumes.
NextBake ==
  \/ /\ loads = 0
     /\ \E blob \in Blobs : LoadAudio(blob)
  \/ \E i \in 1..Len(pending) : LoadResolve(i)
  \/ \E val \in Volumes : SetInputVolume(val)
  \/ \E val \in Volumes : SetOutputVolume(val)
  \/ /\ engine.offline = <<>>
     /\ \E bands \in BandLists : RenderOffline(bands)
  \/ /\ engine.offline = <<>>
     /\ \E band \in BandRecords : RenderSingleBand(band)
  \/ \E k \in 1..Len(engine.offline) : RenderDone(k)

SpecBake == Init /\ [][NextBake]_vars

\* no rendering context is running
RenderIdle == \A k \in 1..Len(engine.offline) : engine.offline[k].state = "closed"

\* A render in flight next to the live session: one source is loaded and
\* played once, renders are started one at a time, the session is paused,
\* stopped, repositioned while it is not playing and its bands are edited at
\* any time, and the volumes are moved while a rendering context runs.
NextRender ==
  \/ /\ loads = 0
     /\ LoadAudio(1)
  \/ \E i \in 1..Len(pending) : LoadResolve(i)
  \/ /\ engine.sources = <<>>
     /\ \E bands \in SessionLists : Play(bands)
  \/ Pause
  \/ Stop
  \/ /\ ~engine.isPlaying
     /\ \E time \in 0..1, bands \in SessionLists : Seek(time, bands)
  \/ \E band \in MixRecords : UpdateBandParams(band, FALSE)
  \/ /\ ~RenderIdle
     /\ \E val \in Volumes : SetInputVolume(val)
  \/ /\ ~RenderIdle
     /\ \E val \in Volumes : SetOutputVolume(val)
  \/ /\ RenderIdle
     /\ \E bands \in MixLists : RenderOffline(bands)
  \/ /\ RenderIdle
     /\ \E band \in SessionRecords : RenderSingleBand(band)
  \/ \E k \in 1..Len(engine.offline) : RenderDone(k)

SpecRender == Init /\ [][NextRender]_vars

\* the export of a rendered buffer (handleExportFull, handleDownloadStem)
DownloadWav ==
  /\ app.generatedBuffer.length > 0
  /\ app' = [app EXCEPT !.file = downloadWav(app.generatedBuffer)]
  /\ call' = [op |-> "export", arg |-> 0, bands |-> <<>>, solo |-> FALSE,
              was |-> engine.isPlaying, acted |-> FALSE, built |-> FALSE,
              error |-> ""]
  /\ UNCHANGED <<engine, clock, pending, loads>>

\* The export alone: the application holds any rendered buffer and
\* downloads it.
InitWav ==
  /\ app \in { [NewApp EXCEPT !.generatedBuffer = b] : b \in AudioBuffers }
  /\ engine = NewEngine
  /\ clock = 0
  /\ pending = <<>>
  /\ loads = 0
  /\ call = [op |-> "new", arg |-> 0, bands |-> <<>>, solo |-> FALSE,
             was |-> FALSE, acted |-> FALSE, built |-> FALSE, error |-> ""]

NextWav == DownloadWav

SpecWav == InitWav /\ [][NextWav]_vars

\* ---------------------------------------------------------------- application
\* handleError: the banner is set, the screen is ERROR, and a timer is armed
\* that will clear both
handleError(a, msg) ==
  [a EXCEPT !.errorMessage = msg, !.state = "ERROR", !.timers = @ + 1]

\* the edits the mixer's controls make to a band: the M and S buttons
\* toggle a flag, the two faders store a gain
Updates(band) ==
  { [key |-> "muted", value |-> IF band.muted THEN 0 ELSE 1],
    [key |-> "solo",  value |-> IF band.solo THEN 0 ELSE 1] }
  \cup { [key |-> k, value |-> v] : k \in {"gainL", "gainR"}, v \in Volumes }

\* { ...b, ...updates }
Merge(b, updates) ==
  IF updates.key = "muted" THEN [b EXCEPT !.muted = (updates.value = 1)]
  ELSE IF updates.key = "solo" THEN [b EXCEPT !.solo = (updates.value = 1)]
  ELSE IF updates.key = "gainL" THEN [b EXCEPT !.gainL = updates.value]
  ELSE [b EXCEPT !.gainR = updates.value]

RECURSIVE forEachUpdate(_, _, _, _)
forEachUpdate(e, newBands, activeSolo, i) ==
  IF i > Len(newBands) THEN e
  ELSE forEachUpdate(updateBandParams(e, newBands[i], activeSolo),
                     newBands, activeSolo, i + 1)

\* updateBand: the new band list and the engine after the calls it makes
updateBand(e, prev, id, updates) ==
  LET newBands == [i \in 1..Len(prev) |->
                     IF prev[i].id = id THEN Merge(prev[i], updates)
                     ELSE prev[i]]
      activeSolo == anySolo(newBands)
      e1 == IF \E i \in 1..Len(newBands) : newBands[i].id = id
            THEN updateBandParams(e, newBands[id], activeSolo)
            ELSE e
      e2 == IF updates.key \in {"solo", "muted"}
            THEN forEachUpdate(e1, newBands, activeSolo, 1)
            ELSE e1
  IN [engine |-> e2, bands |-> newBands, activeSolo |-> activeSolo]

\* the outcomes of the classification service for one call
Outcomes == {"labels", "noKey", "encodeFails", "modelError", "emptyResponse"}

\* analyzeAudioSession: how its promise settles, and with what analysis
analyzeAudioSession(outcome) ==
  IF outcome = "noKey" THEN [settled |-> "rejected", analysis |-> ""]
  ELSE IF outcome = "encodeFails" THEN [settled |-> "rejected", analysis |-> ""]
  ELSE IF outcome = "labels" THEN [settled |-> "resolved", analysis |-> "labels"]
  ELSE [settled |-> "resolved", analysis |-> "default"]

\* the user picks a file: startSpectralProcessing up to its first await
HandleFileUpload(blob) ==
  /\ app.state = "IDLE"
  /\ app.analyzing = 0
  /\ loads < MaxLoads
  /\ app' = [app EXCEPT !.state = "ANALYZING", !.analyzing = blob]
  /\ Step("upload", blob, <<>>, FALSE, engine)
  /\ UNCHANGED <<clock, pending, loads>>

\* the analysis settles: startSpectralProcessing from its first await to
\* its second (the band list is created and the load begins), or to its
\* catch block
AnalysisSettles(outcome) ==
  /\ app.analyzing # 0
  /\ LET r == analyzeAudioSession(outcome)
         initialBands == [i \in BandIds |-> InitialBand(i)]
     IN IF r.settled = "rejected"
        THEN /\ app' = [handleError(app, "Error al inicializar el motor espectral.")
                          EXCEPT !.analyzing = 0]
             /\ Step("analysis", app.analyzing, <<>>, FALSE, engine)
             /\ UNCHANGED <<pending, loads>>
        ELSE /\ app' = [app EXCEPT !.analysis = r.analysis,
                                   !.bands = initialBands,
                                   !.analyzing = 0]
             /\ loads' = loads + 1
             /\ pending' = Append(pending, app.analyzing)
             /\ Step("analysis", app.analyzing, initialBands, FALSE,
                     loadAudioBegin(engine))
  /\ UNCHANGED clock

\* the decode resolves: loadAudio finishes and startSpectralProcessing
\* shows the studio
SessionLoaded(i) ==
  /\ pending' = Remove(pending, i)
  /\ Step("loaded", pending[i], <<>>, FALSE, loadAudioResume(engine, pending[i]))
  /\ app' = [app EXCEPT !.state = "STUDIO"]
  /\ UNCHANGED <<clock, loads>>

\* the decode fails: startSpectralProcessing's catch block
SessionFailed(i) ==
  /\ pending' = Remove(pending, i)
  /\ Step("failed", pending[i], <<>>, FALSE, engine)
  /\ app' = handleError(app, "Error al inicializar el motor espectral.")
  /\ UNCHANGED <<clock, loads>>

\* a timer armed by handleError fires
ErrorTimeout ==
  /\ app.timers > 0
  /\ app' = [app EXCEPT !.errorMessage = "", !.state = "IDLE", !.timers = @ - 1]
  /\ Step("timeout", 0, <<>>, FALSE, engine)
  /\ UNCHANGED <<clock, pending, loads>>

\* the transport bar's play and pause buttons
OnPlay ==
  /\ app.state = "STUDIO"
  /\ Len(engine.sources) < MaxSources
  /\ Step("play", 0, app.bands, FALSE, play(engine, clock, app.bands))
  /\ app' = [app EXCEPT !.isPlaying = TRUE]
  /\ UNCHANGED <<clock, pending, loads>>

OnPause ==
  /\ app.state = "STUDIO"
  /\ Step("pause", 0, <<>>, FALSE, pause(engine, clock))
  /\ app' = [app EXCEPT !.isPlaying = FALSE]
  /\ UNCHANGED <<clock, pending, loads>>

\* a mixer control of band id is moved
UpdateBand(id, updates) ==
  /\ app.state = "STUDIO"
  /\ LET r == updateBand(engine, app.bands, id, updates)
     IN /\ app' = [app EXCEPT !.bands = r.bands]
        /\ Step("updateBand", id, r.bands, r.activeSolo, r.engine)
  /\ UNCHANGED <<clock, pending, loads>>

\* the buffer the k-th rendering context produces
renderedBuffer(e, k) ==
  [numberOfChannels |-> e.offline[k].channels, length |-> e.offline[k].length,
   sampleRate |-> e.offline[k].sampleRate, phase |-> 0]

\* handleGeneratePreview up to its await, or through its catch block when
\* renderOffline throws
HandleGeneratePreview ==
  /\ app.state = "STUDIO"
  /\ Len(engine.offline) < MaxRenders
  /\ LET e0 == IF app.isPlaying THEN stop(engine) ELSE engine
         r == renderOffline(e0, app.bands)
         a1 == [app EXCEPT !.isPlaying = FALSE, !.state = "RENDERING",
                           !.bands = r.bands]
     IN /\ app' = IF r.error # ""
                  THEN handleError(a1, "Fallo la renderizacion.")
                  ELSE [a1 EXCEPT !.rendering = "preview"]
        /\ StepRender("render", app.bands, r)
  /\ UNCHANGED <<clock, pending, loads>>

\* the preview's rendering resolves: the buffer is kept and the studio is
\* shown again
PreviewRendered ==
  /\ app.rendering = "preview"
  /\ LET k == Len(engine.offline)
     IN /\ app' = [app EXCEPT !.generatedBuffer = renderedBuffer(engine, k),
                              !.state = "STUDIO", !.rendering = ""]
        /\ StepRender("rendered", <<>>,
                      [engine |-> startRenderingResolved(engine, k), error |-> ""])
  /\ UNCHANGED <<clock, pending, loads>>

\* the preview's rendering rejects: handleGeneratePreview's catch block
PreviewFailed ==
  /\ app.rendering = "preview"
  /\ LET k == Len(engine.offline)
     IN /\ app' = handleError([app EXCEPT !.rendering = ""],
                              "Fallo la renderizacion.")
        /\ StepRender("rendered", <<>>,
                      [engine |-> startRenderingResolved(engine, k),
                       error |-> "rejected"])
  /\ UNCHANGED <<clock, pending, loads>>

\* handleDownloadStem up to its await, or through its catch block when
\* renderSingleBand throws
HandleDownloadStem(band) ==
  /\ app.state = "STUDIO"
  /\ Len(engine.offline) < MaxRenders
  /\ LET r == renderSingleBand(engine, band)
         a1 == [app EXCEPT !.state = "RENDERING"]
     IN /\ app' = IF r.error # ""
                  THEN [handleError(a1, "Error exportando Stem")
                          EXCEPT !.state = "STUDIO"]
                  ELSE [a1 EXCEPT !.rendering = "stem"]
        /\ StepRender("stem", <<band>>, r)
  /\ UNCHANGED <<clock, pending, loads>>

\* the stem's rendering resolves: the file is built and offered, and the
\* studio is shown again
StemRendered ==
  /\ app.rendering = "stem"
  /\ LET k == Len(engine.offline)
     IN /\ app' = [app EXCEPT !.file = downloadWav(renderedBuffer(engine, k)),
                              !.state = "STUDIO", !.rendering = ""]
        /\ StepRender("rendered", <<>>,
                      [engine |-> startRenderingResolved(engine, k), error |-> ""])
  /\ UNCHANGED <<clock, pending, loads>>

\* the stem's rendering rejects: handleDownloadStem's catch block
StemFailed ==
  /\ app.rendering = "stem"
  /\ LET k == Len(engine.offline)
     IN /\ app' = [handleError([app EXCEPT !.rendering = ""],
                               "Error exportando Stem")
                     EXCEPT !.state = "STUDIO"]
        /\ StepRender("rendered", <<>>,
                      [engine |-> startRenderingResolved(engine, k),
                       error |-> "rejected"])
  /\ UNCHANGED <<clock, pending, loads>>

\* the M and S buttons of a band
Toggles(band) == { u \in Updates(band) : u.key \in {"muted", "solo"} }

\* The application from the first upload on: every outcome of the
\* analysis, of the decode and of the renders, and the error timers.
NextSession ==
  \/ \E blob \in Blobs : HandleFileUpload(blob)
  \/ \E outcome \in Outcomes : AnalysisSettles(outcome)
  \/ \E i \in 1..Len(pending) : SessionLoaded(i)
  \/ \E i \in 1..Len(pending) : SessionFailed(i)
  \/ ErrorTimeout
  \/ HandleGeneratePreview
  \/ PreviewRendered
  \/ PreviewFailed
  \/ \E i \in 1..Len(app.bands) : HandleDownloadStem(app.bands[i])
  \/ StemRendered
  \/ StemFailed

SpecSession == Init /\ [][NextSession]_vars

\* The preview: one session is opened, its M and S buttons are pressed, it
\* is played once and paused, and previews are rendered.
NextPreview ==
  \/ /\ loads = 0
     /\ HandleFileUpload(1)
  \/ AnalysisSettles("labels")
  \/ \E i \in 1..Len(pending) : SessionLoaded(i)
  \/ /\ engine.sources = <<>>
     /\ OnPlay
  \/ OnPause
  \/ \E i \in 1..Len(app.bands) : \E updates \in Toggles(app.bands[i]) :
        UpdateBand(app.bands[i].id, updates)
  \/ HandleGeneratePreview
  \/ PreviewRendered

SpecPreview == Init /\ [][NextPreview]_vars

\* The mixer: one session is opened, its bands are edited before and after
\* play builds the one live graph, and playback is paused.
NextMix ==
  \/ /\ loads = 0
     /\ HandleFileUpload(1)
  \/ AnalysisSettles("labels")
  \/ \E i \in 1..Len(pending) : SessionLoaded(i)
  \/ /\ engine.sources = <<>>
     /\ OnPlay
  \/ OnPause
  \/ \E i \in 1..Len(app.bands) : \E updates \in Updates(app.bands[i]) :
        UpdateBand(app.bands[i].id, updates)

SpecMix == Init /\ [][NextMix]_vars

\* ---------------------------------------------------------------- claims
\* the rule of the parameter update protocol
effectiveGain(band, ch, soloActive) ==
  IF band.muted THEN 0
  ELSE IF soloActive /\ ~band.solo THEN 0
  ELSE IF ch = "L" THEN band.gainL ELSE band.gainR

Clamp(t, lo, hi) == IF t < lo THEN lo ELSE IF t > hi THEN hi ELSE t

\* source nodes started and not stopped
ActiveSources == { i \in 1..Len(engine.sources) : ~engine.sources[i].stopped }

\* band chains wired between the live input bus and the live master bus
LiveChains ==
  { i \in 1..Len(engine.chains) :
      /\ engine.inputGainNode # 0
      /\ engine.chains[i].input = engine.inputGainNode
      /\ engine.chains[i].output = engine.masterGainNode }

\* band chains whose gain stages the band-node map holds
RegisteredChains == { engine.bandNodes[b] : b \in BandIds } \ {0}

Position == currentTime(engine, clock)

\* C1: the targets updateBandParams schedules for a band's two gain stages
\* are 0 if the band is muted, else 0 if a solo is active and the band is
\* not soloed, else the stored gainL and gainR.
C1_UpdateTargets ==
  (call.op = "update" /\ engine.bandNodes[call.bands[1].id] # 0)
  => LET band == call.bands[1]
         c == engine.chains[engine.bandNodes[band.id]]
     IN /\ c.gainL.target = effectiveGain(band, "L", call.solo)
        /\ c.gainR.target = effectiveGain(band, "R", call.solo)

\* an update has silenced a band that is neither muted nor soloed, because
\* a solo is active; its stages still carry their stored gains
C1_Witness ==
  /\ call.op = "update"
  /\ engine.bandNodes[call.bands[1].id] # 0
  /\ call.solo /\ ~call.bands[1].solo /\ ~call.bands[1].muted
  /\ LET c == engine.chains[engine.bandNodes[call.bands[1].id]]
     IN c.gainL.target = 0 /\ c.gainL.value # 0 /\ c.gainR.value # 0

\* C2: right after a play that built the live graph, every band's gain
\* stages have the value effectiveGain(band, channel, soloActive), with
\* soloActive computed from the band list passed to play.
C2_PlayGains ==
  (call.op \in {"play", "seek", "skip"} /\ call.built)
  => \A i \in 1..Len(call.bands) :
       LET band == call.bands[i]
           c == engine.chains[engine.bandNodes[band.id]]
       IN /\ c.gainL.value = effectiveGain(band, "L", anySolo(call.bands))
          /\ c.gainR.value = effectiveGain(band, "R", anySolo(call.bands))

\* C3: when no load is in flight, the chains wired between the live input
\* bus and the live master bus are the chains registered in the band-node
\* map, one per band.
C3_LiveChainsRegistered ==
  pending = <<>>
  => /\ LiveChains = RegisteredChains
     /\ \A i, j \in LiveChains :
          engine.chains[i].band = engine.chains[j].band => i = j

\* C4: at most one source node is started and not stopped.
C4_OneActiveSource == Cardinality(ActiveSources) <= 1

\* a seek during playback has replaced the source node: the old one is
\* stopped, the new one runs
C4_Witness ==
  /\ call.op = "seek" /\ call.built
  /\ Cardinality(ActiveSources) = 1
  /\ \E i \in 1..Len(engine.sources) : engine.sources[i].stopped

\* C5: a play that follows a pause resumes at the position the pause
\* recorded: across pause and play the reported position never moves
\* backwards.
C5_ResumeMonotone ==
  [][(\/ call'.op = "pause"
      \/ call'.op = "play" /\ call.op = "pause" /\ call.acted)
       => currentTime(engine', clock') >= currentTime(engine, clock)]_vars

\* C6: play while the engine is playing changes nothing: no source node, no
\* band chain, and startTime, pauseTime and the band-node map are as before.
C6_PlayWhilePlayingNoOp ==
  (call.op = "play" /\ call.was) => ~call.acted

\* play was called during playback, and the playback goes on
C6_Witness ==
  /\ call.op = "play" /\ call.was
  /\ engine.isPlaying
  /\ ActiveSources = {engine.sourceNode}

\* C7: after stop the engine is not playing, the stored offset and the
\* reported position are 0, no source node is active, and a second stop
\* changes nothing.
C7_StopResets ==
  call.op = "stop"
  => /\ ~engine.isPlaying
     /\ engine.pauseTime = 0
     /\ Position = 0
     /\ ActiveSources = {}
     /\ stop(engine) = engine

\* stop was called during playback and has stopped the source node
C7_Witness ==
  /\ call.op = "stop" /\ call.was /\ call.acted
  /\ engine.sourceNode # 0
  /\ engine.sources[engine.sourceNode].stopped

\* C8: seek(T) with a source loaded keeps the play-state and makes the
\* reported position T clamped to [0, duration]; during playback it leaves
\* exactly one active source node, a fresh one started at that offset.
C8_SeekRepositions ==
  (call.op = "seek" /\ engine.decodedBuffer # 0 /\ pending = <<>>)
  => LET t == Clamp(call.arg, 0, duration(engine))
     IN /\ engine.isPlaying = call.was
        /\ Position = t
        /\ call.was => /\ call.built
                       /\ ActiveSources = {engine.sourceNode}
                       /\ engine.sources[engine.sourceNode].offset = t

\* C9: skip(delta) keeps the play-state and moves the reported position to
\* the position before the call plus delta, clamped to [0, duration].
C9_SkipIsSeek ==
  [][(call'.op = "skip" /\ engine.decodedBuffer # 0 /\ pending = <<>>)
       => /\ engine' = seek(engine, clock,
                            currentTime(engine, clock) + call'.arg, call'.bands)
          /\ currentTime(engine', clock') =
               Clamp(currentTime(engine, clock) + call'.arg, 0, duration(engine))]_vars

\* C10: when a loadAudio call resolves, the engine is Loaded/Stopped: not
\* playing, offset 0, no active source node, the decoded buffer is the new
\* source, and no gain stage is registered in the band-node map.
C10_LoadedIsStopped ==
  call.op = "loaded"
  => /\ ~engine.isPlaying
     /\ engine.pauseTime = 0
     /\ ActiveSources = {}
     /\ engine.decodedBuffer = call.arg
     /\ RegisteredChains = {}
     /\ LiveChains = {}

\* C11: after a loadAudio call has failed, the engine is as if unloaded: it
\* holds no source buffer, no source node is active, no band chain is
\* registered or wired to the live buses, a play starts no source node and
\* a render throws the no-source error.
C11_FailedLoadUnloaded ==
  call.op = "failed"
  => /\ engine.decodedBuffer = 0
     /\ ActiveSources = {}
     /\ RegisteredChains = {}
     /\ LiveChains = {}
     /\ \A bands \in SessionLists :
          /\ Len(play(engine, clock, bands).sources) = Len(engine.sources)
          /\ renderOffline(engine, bands).error = "No audio loaded"

\* C12: every loadAudio call settles: once time has passed, no call is
\* left awaiting its decode.
C12_LoadSettles == (pending # <<>>) ~> (pending = <<>>)

\* the band chains of the k-th rendering context, in the order they were
\* created
RenderChains(e, k) ==
  LET InContext(c) == c.input = -k
  IN SelectSeq(e.chains, InContext)

\* the rendering context the last render call created
LastRender == Len(engine.offline)

\* C13: the full-mix render bakes, for each band of the list it is given
\* and in the list's order, one chain whose left and right gains are
\* effectiveGain(band, channel, soloActive), soloActive computed from the
\* whole list.
C13_RenderBakesEffectiveGain ==
  (call.op = "render" /\ call.error = "")
  => LET cs == RenderChains(engine, LastRender)
     IN /\ Len(cs) = Len(call.bands)
        /\ \A i \in 1..Len(cs) :
             /\ cs[i].band = call.bands[i].id
             /\ cs[i].gainL = SetValue(
                  effectiveGain(call.bands[i], "L", anySolo(call.bands)))
             /\ cs[i].gainR = SetValue(
                  effectiveGain(call.bands[i], "R", anySolo(call.bands)))

\* a full mix was rendered from a list with a soloed band and an unmuted
\* band that is not soloed: the one is baked at its stored gains, the other
\* at 0
C13_Witness ==
  /\ call.op = "render" /\ call.error = ""
  /\ \E i, j \in 1..Len(call.bands) :
       LET cs == RenderChains(engine, LastRender)
       IN /\ call.bands[i].solo /\ ~call.bands[i].muted
          /\ ~call.bands[j].solo /\ ~call.bands[j].muted
          /\ cs[i].gainL.value = call.bands[i].gainL
          /\ cs[j].gainL.value = 0 /\ cs[j].gainR.value = 0

\* C16: a render called while no source buffer is loaded throws "No audio
\* loaded" and creates nothing: no rendering context and no node exists.
C16_RenderNeedsSource ==
  (call.op \in {"render", "stem"} /\ engine.decodedBuffer = 0)
  => /\ call.error = "No audio loaded"
     /\ ~call.acted
     /\ engine.offline = <<>>
     /\ engine.chains = <<>>

\* a render was refused while the first decode was still pending: the
\* audio context exists, the source buffer does not
C16_Witness ==
  /\ call.op \in {"render", "stem"}
  /\ call.error = "No audio loaded"
  /\ engine.audioContext /\ engine.decodedBuffer = 0
  /\ pending # <<>>

\* C17: the stem render creates exactly one chain, and its left and right
\* gains are the band's stored gainL and gainR whatever its muted and solo
\* flags are.
C17_StemAtStoredGain ==
  (call.op = "stem" /\ call.error = "")
  => LET cs == RenderChains(engine, LastRender)
     IN /\ Len(cs) = 1
        /\ cs[1].band = call.bands[1].id
        /\ cs[1].gainL = SetValue(call.bands[1].gainL)
        /\ cs[1].gainR = SetValue(call.bands[1].gainR)

\* C19: every rendering context has 2 channels, the length of the source
\* buffer in frames and the source's sample rate, and the source buffer as
\* its source, whatever the bands are.
C19_RenderContextShape ==
  (call.op \in {"render", "stem"} /\ call.error = "")
  => LET ctx == engine.offline[LastRender]
     IN /\ ctx.channels = 2
        /\ ctx.buffer = engine.decodedBuffer
        /\ ctx.length = BlobLength(engine.decodedBuffer)
        /\ ctx.sampleRate = BlobRate(engine.decodedBuffer)

\* a full mix of the longer source was rendered: its context has more
\* frames than the source has seconds
C19_Witness ==
  /\ call.op = "render" /\ call.error = ""
  /\ engine.decodedBuffer = NumBlobs
  /\ engine.offline[LastRender].length > BlobDuration(engine.decodedBuffer)
  /\ Len(RenderChains(engine, LastRender)) = NumBands

\* what the k-th rendering context renders: its settings and its chains
RenderConfig(e, k) == [ctx |-> e.offline[k], chains |-> RenderChains(e, k)]

\* the same, whichever context of the engine it is
RenderShape(e, k) ==
  [ctx    |-> e.offline[k],
   chains |-> [i \in 1..Len(RenderChains(e, k)) |->
                 [RenderChains(e, k)[i] EXCEPT !.input = 0, !.output = 0]]]

\* C14: while a rendering context runs, no step changes what it renders:
\* its buffer, length, rate, volumes, compressor, chains and baked gains
\* stay as the render call left them.
C14_RenderSnapshot ==
  [][\A k \in 1..Len(engine.offline) :
       (engine.offline[k].state = "running" /\ engine'.offline[k].state = "running")
       => RenderConfig(engine', k) = RenderConfig(engine, k)]_vars

\* a band was muted on the live graph while a rendering context runs that
\* has this band baked at its stored gain
C14_Witness ==
  /\ call.op = "update" /\ call.acted /\ call.bands[1].muted
  /\ engine.chains[engine.bandNodes[call.bands[1].id]].gainL.target = 0
  /\ \E k \in 1..Len(engine.offline) :
       /\ engine.offline[k].state = "running"
       /\ \E i \in 1..Len(RenderChains(engine, k)) :
            /\ RenderChains(engine, k)[i].band = call.bands[1].id
            /\ RenderChains(engine, k)[i].gainL = SetValue(call.bands[1].gainL)

\* C15: a render call, and the completion of its rendering, leave the live
\* session as it was: play-state, offsets, source nodes, live chains,
\* band-node map, decoded buffer and volumes.
C15_RenderLeavesLive ==
  call.op \in {"render", "stem", "rendered"} => ~call.acted

\* a full mix was rendered while the live graph was playing, and it still
\* plays
C15_Witness ==
  /\ call.op = "render" /\ call.error = "" /\ call.was
  /\ engine.isPlaying
  /\ ActiveSources = {engine.sourceNode}
  /\ LiveChains = RegisteredChains /\ LiveChains # {}

\* C18: the configuration a full-mix render constructs is the one the same
\* call constructs on an engine that holds nothing but the same source and
\* the same two volumes: it depends neither on the transport state, nor on
\* the live graph, nor on earlier renders, so two calls with the same
\* source, volumes and band list construct the same configuration.
C18_RenderDeterministic ==
  (call.op = "render" /\ call.error = "")
  => LET sourceOnly == [NewEngine EXCEPT
                          !.decodedBuffer = engine.decodedBuffer,
                          !.inputVolume = engine.inputVolume,
                          !.outputVolume = engine.outputVolume]
     IN RenderShape(engine, LastRender)
          = RenderShape(renderOffline(sourceOnly, call.bands).engine, 1)

\* a full mix was rendered after an earlier render had completed, with the
\* live graph built and the session paused away from the start
C18_Witness ==
  /\ call.op = "render" /\ call.error = ""
  /\ LastRender > 1
  /\ engine.offline[1].state = "closed"
  /\ engine.pauseTime # 0
  /\ LiveChains # {}

\* the signed 16-bit little-endian number at byte offset o of a file
ReadInt16(file, o) ==
  LET u == file[o + 1] + 256 * file[o + 2]
  IN IF u >= 32768 THEN u - 65536 ELSE u

Abs(x) == IF x < 0 THEN -x ELSE x

\* C20: in the exported file, the 16-bit sample at byte offset
\* 44 + 2 * (k * C + c) is the int16 quantisation (within one step) of the
\* buffer's channel c, frame k, clamped to [-1, 1], for every frame k and
\* channel c of the buffer.
C20_WavRoundTrip ==
  call.op = "export"
  => LET buffer == app.generatedBuffer
         C == buffer.numberOfChannels
     IN /\ Len(app.file) = 44 + 2 * buffer.length * C
        /\ \A k \in 0..(buffer.length - 1), c \in 0..(C - 1) :
             LET stored == ReadInt16(app.file, 44 + 2 * (k * C + c))
                 sample == Clamp(getChannelData(buffer, c, k), -4, 4)
             IN Abs(4 * stored - sample * 32767) <= 4

\* the unsigned little-endian number on n bytes at byte offset o of a file
ReadUint(file, o, n) ==
  LET RECURSIVE Value(_)
      Value(j) == IF j > n THEN 0 ELSE file[o + j] + 256 * Value(j + 1)
  IN Value(1)

\* the four ASCII characters a, b, c, d at byte offset o of a file
Tag(file, o, a, b, c, d) ==
  <<file[o + 1], file[o + 2], file[o + 3], file[o + 4]>> = <<a, b, c, d>>

\* C21: the exported file is 44 + N * C * 2 bytes long and begins with a
\* 44-byte little-endian header: 'RIFF', the total size less 8, 'WAVE',
\* 'fmt ', 16, format code 1, the channel count, the sample rate, the byte
\* rate sampleRate * C * 2, the block align C * 2, 16 bits per sample,
\* 'data', and the total size less 44, the size of the data that follows
\* from byte 44 on.
C21_WavHeader ==
  call.op = "export"
  => LET buffer == app.generatedBuffer
         C == buffer.numberOfChannels
         file == app.file
         totalBytes == Len(file)
     IN /\ totalBytes = 44 + buffer.length * C * 2
        /\ Tag(file, 0, 82, 73, 70, 70)
        /\ ReadUint(file, 4, 4) = totalBytes - 8
        /\ Tag(file, 8, 87, 65, 86, 69)
        /\ Tag(file, 12, 102, 109, 116, 32)
        /\ ReadUint(file, 16, 4) = 16
        /\ ReadUint(file, 20, 2) = 1
        /\ ReadUint(file, 22, 2) = C
        /\ ReadUint(file, 24, 4) = buffer.sampleRate
        /\ ReadUint(file, 28, 4) = buffer.sampleRate * C * 2
        /\ ReadUint(file, 32, 2) = C * 2
        /\ ReadUint(file, 34, 2) = 16
        /\ Tag(file, 36, 100, 97, 116, 97)
        /\ ReadUint(file, 40, 4) = totalBytes - 44

\* an export of a buffer long enough for the sample loop to write
C21_Witness ==
  /\ call.op = "export"
  /\ app.generatedBuffer.length > 44
  /\ Len(app.file) > 44
  /\ ReadInt16(app.file, 44) # 0

\* the live graph is in place: the source plays through one registered
\* chain per band, wired between the live buses
LiveGraphInPlace ==
  /\ engine.isPlaying
  /\ ActiveSources # {}
  /\ \A b \in BandIds : engine.bandNodes[b] \in LiveChains

\* C22: after an updateBand edit made while the live graph is in place,
\* the targets of every band's two gain stages are effectiveGain of the
\* band as the application now stores it, with soloActive computed from the
\* whole updated band list.
C22_EditsKeepEffectiveGain ==
  (call.op = "updateBand" /\ LiveGraphInPlace)
  => \A i \in 1..Len(app.bands) :
       LET band == app.bands[i]
           c == engine.chains[engine.bandNodes[band.id]]
           soloActive == anySolo(app.bands)
       IN /\ c.gainL.target = effectiveGain(band, "L", soloActive)
          /\ c.gainR.target = effectiveGain(band, "R", soloActive)

\* the calls the application makes into the engine with its band list, or
\* that the engine completes on its own
EngineCalls == {"play", "pause", "loaded", "render", "rendered"}

C24_AnalysisFallsBack ==
  call.op = "analysis"
  => /\ app.analysis \in {"labels", "default"}
     /\ app.state = "ANALYZING" /\ app.errorMessage = ""
     /\ Len(app.bands) = NumBands
     /\ pending # <<>> /\ engine.audioContext

\* C30: after a failed stem export the application is in the STUDIO state
\* and stays there: no timer of the error handler takes it from STUDIO to
\* IDLE.
C30_StemFailureStaysInStudio ==
  [][(app.state = "STUDIO" /\ call'.op = "timeout") => app'.state = "STUDIO"]_vars

\* the filters and the connections of a band chain of the engine
Wiring(c) ==
  [filters |-> bandFilters([id |-> c.band]), connections |-> bandConnections]

\* the nodes a node of a wiring is connected to, each with the input it
\* feeds
Successors(w, n) ==
  { <<w.connections[j][2], w.connections[j][3]>> :
      j \in { k \in 1..Len(w.connections) : w.connections[k][1] = n } }

\* the filter stages of a wiring in series order, from its input on
RECURSIVE Series(_, _, _)
Series(w, n, left) ==
  LET next == Successors(w, n)
  IN IF left = 0 \/ Cardinality(next) # 1 THEN <<>>
     ELSE LET m == (CHOOSE x \in next : TRUE)[1]
          IN IF m \in DOMAIN w.filters
             THEN <<m>> \o Series(w, m, left - 1)
             ELSE <<>>

\* C25: every band chain, live or offline, is wired in series from the
\* shared input through three high-pass stages at range[0] and then three
\* low-pass stages at range[1], all with Q 0.707; the last stage fans out
\* to gainL and gainR; gainL feeds merger input 0 and gainR merger input 1,
\* and the merger feeds the shared output.
C25_ChainTopology ==
  \A i \in 1..Len(engine.chains) :
    LET c == engine.chains[i]
        w == Wiring(c)
        stages == Series(w, "input", Len(w.connections))
    IN c # ClosedNode
       => /\ c.input # 0 /\ c.output # 0 /\ (c.input < 0 <=> c.output < 0)
          /\ Len(stages) = 6
          /\ \A j \in 1..3 :
               w.filters[stages[j]] =
                 [type |-> "highpass",
                  frequency |-> SPECTRAL_BANDS_TEMPLATE[c.band][1], Q |-> 707]
          /\ \A j \in 4..6 :
               w.filters[stages[j]] =
                 [type |-> "lowpass",
                  frequency |-> SPECTRAL_BANDS_TEMPLATE[c.band][2], Q |-> 707]
          /\ Successors(w, stages[6]) = {<<"gainL", 0>>, <<"gainR", 0>>}
          /\ Successors(w, "gainL") = {<<"merger", 0>>}
          /\ Successors(w, "gainR") = {<<"merger", 1>>}
          /\ Successors(w, "merger") = {<<"output", 0>>}
          /\ Successors(w, "output") = {}

\* a live chain and a chain of a running rendering context exist together
C25_Witness ==
  /\ LiveChains # {}
  /\ \E i \in 1..Len(engine.chains) : engine.chains[i].input < 0

\* the gain stages of the registered chains that have not reached the
\* target of their last ramp
Ramping ==
  { n \in RegisteredChains :
      \/ engine.chains[n].gainL.value # engine.chains[n].gainL.target
      \/ engine.chains[n].gainR.value # engine.chains[n].gainR.target }

\* C26: updateBandParams changes the value of no gain stage at the moment
\* of the call; it only sets the band's two ramp targets, to the targets
\* computed by this call whatever ramp was scheduled before; and a stage
\* that is ramping reaches the target in force.
C26_UpdatesRamp ==
  /\ [][call'.op = "update"
         => /\ \A i \in 1..Len(engine.chains) :
                 /\ engine'.chains[i].gainL.value = engine.chains[i].gainL.value
                 /\ engine'.chains[i].gainR.value = engine.chains[i].gainR.value
            /\ LET band == call'.bands[1]
                   n == engine.bandNodes[band.id]
               IN n # 0 =>
                    /\ engine'.chains[n].gainL.target =
                         targetGain(band, "L", call'.solo)
                    /\ engine'.chains[n].gainR.target =
                         targetGain(band, "R", call'.solo)]_vars
  /\ ((Ramping # {}) ~> (Ramping = {}))

\* an update has retargeted both stages of a band: their values are the
\* old ones, their targets the new ones
C26_Witness ==
  /\ call.op = "update"
  /\ LET n == engine.bandNodes[call.bands[1].id]
     IN /\ n # 0
        /\ engine.chains[n].gainL.value = 1
        /\ engine.chains[n].gainL.target = 0
        /\ engine.chains[n].gainR.value = 1
        /\ engine.chains[n].gainR.target = 0

\* C27: whenever the playing flag is set, a source buffer is loaded and a
\* source node has been started and not stopped.
C27_PlayingHasSource ==
  engine.isPlaying => (engine.decodedBuffer # 0 /\ ActiveSources # {})

\* C28: the reported position is never negative and never beyond the
\* duration of the source.
C28_PositionInRange ==
  0 <= Position /\ Position <= duration(engine)

\* C29: when two loadAudio calls overlap and both decodes resolve, the
\* engine holds the buffer of the call issued last: the resolution of the
\* one call still pending does not replace the buffer of a call that was
\* issued after it.
C29_LastIssuedLoadWins ==
  [][(/\ call'.op = "loaded"
      /\ Len(pending) = 1
      /\ engine.decodedBuffer > pending[1])
       => engine'.decodedBuffer = engine.decodedBuffer]_vars

====
